---- MODULE Spec2Model ----
(***************************************************************************)
(* A model of the booking / escrow / payment handlers of                   *)
(* backend/server.py (RentAll API).                                        *)
(*                                                                         *)
(* Money is kept in integer cents; percentages are whole percents.         *)
(* Calendar dates are day numbers (day 0 is a Monday), so that comparing   *)
(* two ISO "YYYY-MM-DD" strings is comparing two day numbers.              *)
(* The collections of the data store are sequences: a document's id is its *)
(* position (uuid4 ids are fresh, never reused, never deleted).            *)
(* Spec takes the handlers one at a time; ConcSpec and PayConcSpec split   *)
(* create_booking and the payment handlers at their awaits; PriceSpec      *)
(* serves one request against each of a range of listing documents.        *)
(***************************************************************************)
EXTENDS Integers, Sequences, FiniteSets, TLC

\* ------------------------------------------------------------------ bounds
MaxBookings == 2    \* documents in db.bookings
MaxSessions == 2    \* documents in db.payment_transactions
MaxPaidBookings == 1 \* bookings in a store that also holds payment transactions
MaxDay == 2         \* calendar days 1..MaxDay a request may name
MaxInflight == 2    \* create_booking handlers suspended at once
MaxMessages == 2    \* messages in db.messages

\* ------------------------------------------------------- program constants
PLATFORM_FEE_PERCENT == 5
AUTO_RELEASE_DAYS == 3

\* ------------------------------------------------------------ fixed data
Users == {"alice", "bob"}
ListingIds == {"l1"}

NoListing ==
  [ owner_id |-> "alice",
    price_per_hour |-> 0, price_per_day |-> 0, price_per_week |-> 0,
    min_rental_hours |-> 1, min_rental_days |-> 1,
    surge_enabled |-> FALSE, surge_percentage |-> 20, surge_weekends |-> TRUE,
    surge_dates |-> {},
    discount_weekly |-> 0, discount_monthly |-> 0, discount_quarterly |-> 0 ]

\* db.listings: the listing documents (ListingBase defaults, a price of 0 is
\* "not configured": the handler tests `if not price_per_day`).
Listings ==
  [ l \in ListingIds |->
      [ NoListing EXCEPT !.owner_id = "alice", !.price_per_day = 10000 ] ]

Owners == {Listings[l].owner_id : l \in ListingIds}

Days == 1..MaxDay
Statuses == {"pending", "confirmed", "rejected", "completed", "cancelled",
             "paid", "disputed"}
ActiveStatuses == {"pending", "confirmed", "paid"}
OwnerStatuses == {"confirmed", "rejected", "completed", "cancelled"}

VARIABLES
  bookings,              \* db.bookings
  users,                 \* db.users
  payment_transactions,  \* db.payment_transactions
  payouts,               \* db.payouts
  transfers,             \* stripe.Transfer.create calls made
  inflight,              \* handlers suspended between two awaits
  resp,                  \* the response of the last handler that returned
  listings,              \* db.listings
  request,               \* the create_booking request that handler served
  messages               \* db.messages

vars == <<bookings, users, payment_transactions, payouts, transfers, inflight,
          resp, listings, request, messages>>

BookingIds == 1..Len(bookings)
SessionIds == 1..Len(payment_transactions)

\* the ids a request may name: every stored document's, and one of no document
BookingArgs == BookingIds \cup {0}
SessionArgs == SessionIds \cup {0}

\* The explored stores: up to MaxBookings bookings and no payment
\* transaction, or up to MaxPaidBookings bookings and up to MaxSessions
\* payment transactions.
RoomForBooking ==
  /\ Len(bookings) < MaxBookings
  /\ payment_transactions # <<>> => Len(bookings) < MaxPaidBookings
RoomForSession ==
  /\ Len(payment_transactions) < MaxSessions
  /\ Len(bookings) <= MaxPaidBookings

\* ------------------------------------------------------------- responses
Ok(op, caller, id) ==
  [op |-> op, ok |-> TRUE, detail |-> "", caller |-> caller, id |-> id]
Err(op, caller, id, detail) ==
  [op |-> op, ok |-> FALSE, detail |-> detail, caller |-> caller, id |-> id]

\* ------------------------------------------------------------- requests
\* the body of POST /bookings (BookingCreate) with the authenticated user;
\* hours = 0 is `hours` left out
Request(u, l, s, e, dt, h) ==
  [ renter_id |-> u, listing_id |-> l, start_date |-> s, end_date |-> e,
    duration_type |-> dt, hours |-> h ]
RequestOf(bk) ==
  Request(bk.renter_id, bk.listing_id, bk.start_date, bk.end_date,
          bk.duration_type, bk.hours)
NoRequest == Request("", "", 0, 0, "", 0)

\* --------------------------------------------------------------- pricing
\* round(num/den, 2) of an amount in cents: Python rounds half to even.
RoundCents(num, den) ==
  LET q == num \div den
      r == num % den
  IN  IF 2 * r < den THEN q
      ELSE IF 2 * r > den THEN q + 1
      ELSE IF q % 2 = 0 THEN q ELSE q + 1

\* (end_date - start_date).days or 1
RentalDays(s, e) == IF e - s = 0 THEN 1 ELSE e - s

\* check_date.weekday() >= 5
IsWeekend(d) == (d % 7) >= 5

\* faulty variant: is_surge_date without its weekend test
is_surge_date_custom_only(L, d) == L.surge_enabled /\ d \in L.surge_dates

is_surge_date(L, d) ==
  /\ L.surge_enabled
  /\ \/ L.surge_weekends /\ IsWeekend(d)
     \/ d \in L.surge_dates

\* the loop `while current < end_date`
SurgeDays(L, s, e, dt) ==
  IF L.surge_enabled /\ dt \in {"daily", "weekly"}
  THEN Cardinality({d \in s..(e - 1) : is_surge_date(L, d)})
  ELSE 0

\* listing.get("surge_percentage", 20.0) or 20.0
SurgePercentage(L) == IF L.surge_percentage = 0 THEN 20 ELSE L.surge_percentage

PriceOk(total, days) == [ok |-> TRUE, detail |-> "", total |-> total, days |-> days]
PriceErr(detail) == [ok |-> FALSE, detail |-> detail, total |-> 0, days |-> 0]

\* faulty variant: the hourly branch without its min_rental_hours check
HourlyPrice_no_minimum(L, s, e, h) ==
  IF L.price_per_hour = 0 THEN PriceErr("Hourly rental not available for this listing")
  ELSE IF h < 1 THEN PriceErr("Hours must be specified for hourly booking")
  ELSE LET base == L.price_per_hour * h
       IN  IF is_surge_date(L, s)
           THEN PriceOk(RoundCents(base * (100 + SurgePercentage(L)), 100), RentalDays(s, e))
           ELSE PriceOk(base, RentalDays(s, e))

HourlyPrice(L, s, e, h) ==
  IF L.price_per_hour = 0 THEN PriceErr("Hourly rental not available for this listing")
  ELSE IF h < 1 THEN PriceErr("Hours must be specified for hourly booking")
  ELSE IF h < L.min_rental_hours THEN PriceErr("Minimum hours required")
  ELSE LET base == L.price_per_hour * h
       IN  IF is_surge_date(L, s)
           THEN PriceOk(RoundCents(base * (100 + SurgePercentage(L)), 100), RentalDays(s, e))
           ELSE PriceOk(base, RentalDays(s, e))

WeeklyPrice(L, s, e) ==
  IF L.price_per_week = 0 THEN PriceErr("Weekly rental not available for this listing")
  ELSE LET days == RentalDays(s, e)
           weeks == IF days \div 7 > 1 THEN days \div 7 ELSE 1
           remaining_days == days % 7
           \* price_per_day or price_per_week / 7, in sevenths of a cent
           ppd7 == IF L.price_per_day # 0 THEN 7 * L.price_per_day ELSE L.price_per_week
           surge_days == SurgeDays(L, s, e, "weekly")
           \* base price in 1/700 cent
           base700 == 700 * L.price_per_week * weeks
                      + 100 * ppd7 * remaining_days
                      + ppd7 * surge_days * SurgePercentage(L)
       IN  PriceOk(RoundCents(base700, 700), days)

DailyPrice(L, s, e) ==
  IF L.price_per_day = 0 THEN PriceErr("Daily rental not available for this listing")
  ELSE LET d0 == RentalDays(s, e)
           days == IF d0 < 1 THEN 1 ELSE d0
           surge_days == SurgeDays(L, s, e, "daily")
           normal_days == days - surge_days
       IN  IF days < L.min_rental_days THEN PriceErr("Minimum days required")
           ELSE PriceOk(RoundCents(100 * L.price_per_day * normal_days
                                   + L.price_per_day * surge_days * (100 + SurgePercentage(L)),
                                   100), days)

BasePrice(L, s, e, dt, h) ==
  IF dt = "hourly" THEN HourlyPrice(L, s, e, h)
  ELSE IF dt = "weekly" THEN WeeklyPrice(L, s, e)
  ELSE DailyPrice(L, s, e)

DiscountApplied(L, days) ==
  IF days >= 90 /\ L.discount_quarterly > 0 THEN L.discount_quarterly
  ELSE IF days >= 30 /\ L.discount_monthly > 0 THEN L.discount_monthly
  ELSE IF days >= 7 /\ L.discount_weekly > 0 THEN L.discount_weekly
  ELSE 0

\* faulty variant: every tier whose threshold is met is taken off in turn
TotalPrice_stacked(L, total, days) ==
  LET q == IF days >= 90 /\ L.discount_quarterly > 0
           THEN RoundCents(total * (100 - L.discount_quarterly), 100) ELSE total
      m == IF days >= 30 /\ L.discount_monthly > 0
           THEN RoundCents(q * (100 - L.discount_monthly), 100) ELSE q
  IN  IF days >= 7 /\ L.discount_weekly > 0
      THEN RoundCents(m * (100 - L.discount_weekly), 100) ELSE m

TotalPrice(L, total, days) ==
  LET disc == DiscountApplied(L, days)
  IN  IF disc > 0 THEN RoundCents(total * (100 - disc), 100) ELSE total

\* faulty variant: the fee cut to whole cents instead of rounded
PlatformFee_truncated(total) == (total * PLATFORM_FEE_PERCENT) \div 100

PlatformFee(total) == RoundCents(total * PLATFORM_FEE_PERCENT, 100)

\* ------------------------------------------------------- create_booking
\* faulty variant: the conflict query with exclusive bounds ($lt / $gt)
Conflict_exclusive(bs, l, s, e) ==
  \E i \in 1..Len(bs) :
    /\ bs[i].listing_id = l
    /\ bs[i].status \in ActiveStatuses
    /\ bs[i].start_date < e
    /\ bs[i].end_date > s

\* the db.bookings.find_one conflict query
Conflict(bs, l, s, e) ==
  \E i \in 1..Len(bs) :
    /\ bs[i].listing_id = l
    /\ bs[i].status \in ActiveStatuses
    /\ bs[i].start_date <= e
    /\ bs[i].end_date >= s

booking_doc(u, l, s, e, dt, h) ==
  LET L == listings[l]
      p == BasePrice(L, s, e, dt, h)
      total == TotalPrice(L, p.total, p.days)
  IN  [ listing_id |-> l, renter_id |-> u, owner_id |-> L.owner_id,
        start_date |-> s, end_date |-> e,
        duration_type |-> dt, hours |-> h,
        surge_days |-> SurgeDays(L, s, e, dt),
        discount_applied |-> DiscountApplied(L, p.days),
        total_price |-> total,
        platform_fee |-> PlatformFee(total),
        status |-> "pending",
        escrow_status |-> "pending",
        receipt_confirmed |-> FALSE,
        auto_release_date |-> e + AUTO_RELEASE_DAYS ]

\* the checks of create_booking before the conflict query: "" when they pass
CreateBookingPrecheck(u, l, s, e) ==
  IF l \notin ListingIds THEN "Listing not found"
  ELSE IF listings[l].owner_id = u THEN "Cannot book your own listing"
  ELSE IF e < s THEN "End date must be after start date"
  ELSE ""

CreateBooking(u, l, s, e, dt, h) ==
  /\ RoomForBooking
  /\ LET pre == CreateBookingPrecheck(u, l, s, e)
     IN  IF pre # "" THEN
           /\ resp' = Err("create_booking", u, 0, pre)
           /\ UNCHANGED bookings
         ELSE IF Conflict(bookings, l, s, e) THEN
           /\ resp' = Err("create_booking", u, 0, "Dates not available")
           /\ UNCHANGED bookings
         ELSE IF ~BasePrice(listings[l], s, e, dt, h).ok THEN
           /\ resp' = Err("create_booking", u, 0, BasePrice(listings[l], s, e, dt, h).detail)
           /\ UNCHANGED bookings
         ELSE
           /\ bookings' = Append(bookings, booking_doc(u, l, s, e, dt, h))
           /\ resp' = Ok("create_booking", u, Len(bookings) + 1)
  /\ UNCHANGED <<users, payment_transactions, payouts, transfers, inflight, listings, messages>>
  /\ request' = Request(u, l, s, e, dt, h)

\* ------------------------------------------------- update_booking_status
\* the checks of update_booking_status: "" when they pass
update_booking_status_check(bs, b, caller, status) ==
  IF b \notin 1..Len(bs) THEN "Booking not found"
  ELSE IF bs[b].owner_id # caller THEN "Not authorized"
  ELSE IF status \notin OwnerStatuses THEN "Invalid status"
  ELSE ""

UpdateBookingStatus(caller, b, status) ==
  /\ LET err == update_booking_status_check(bookings, b, caller, status)
     IN  IF err # "" THEN
           /\ resp' = Err("update_booking_status", caller, b, err)
           /\ UNCHANGED bookings
         ELSE
           /\ bookings' = [bookings EXCEPT ![b].status = status]
           /\ resp' = Ok("update_booking_status", caller, b)
  /\ UNCHANGED <<users, payment_transactions, payouts, transfers, inflight, listings, messages>>
  /\ request' = NoRequest

\* ------------------------------------------------------- confirm_receipt
\* faulty variant: confirm_receipt without its `status != "paid"` guard
confirm_receipt_check_no_paid_guard(bs, b, caller) ==
  IF b \notin 1..Len(bs) THEN "Booking not found"
  ELSE IF bs[b].renter_id # caller THEN "Only the renter can confirm receipt"
  ELSE IF bs[b].receipt_confirmed THEN "Receipt already confirmed"
  ELSE ""

\* the checks of confirm_receipt, in the handler's order: "" when they pass
confirm_receipt_check(bs, b, caller) ==
  IF b \notin 1..Len(bs) THEN "Booking not found"
  ELSE IF bs[b].renter_id # caller THEN "Only the renter can confirm receipt"
  ELSE IF bs[b].status # "paid" THEN "Booking must be paid first"
  ELSE IF bs[b].receipt_confirmed THEN "Receipt already confirmed"
  ELSE ""

\* faulty variant: the $set of confirm_receipt without receipt_confirmed
confirm_receipt_update_no_latch(bk) ==
  [bk EXCEPT !.escrow_status = "released", !.status = "completed"]

\* the $set of confirm_receipt
confirm_receipt_update(bk) ==
  [bk EXCEPT !.receipt_confirmed = TRUE,
             !.escrow_status = "released",
             !.status = "completed"]

\* faulty variant: the payout without the platform fee taken off
owner_payout_gross(bk) == bk.total_price

\* owner_payout = booking["total_price"] - booking["platform_fee"]
owner_payout(bk) == bk.total_price - bk.platform_fee

\* the $inc of total_earnings and pending_payout
Credit(us, owner, amount) ==
  [us EXCEPT ![owner].total_earnings = @ + amount,
             ![owner].pending_payout = @ + amount]

\* what stripe.Transfer.create can do for this owner: the call is made only
\* for an owner with stripe_account_id and stripe_onboarding_complete
TransferOutcomes(us, owner) ==
  IF us[owner].stripe_account_id /\ us[owner].stripe_onboarding_complete
  THEN {"created", "failed"}
  ELSE {"not attempted"}

ConfirmReceipt(caller, b) ==
  /\ LET err == confirm_receipt_check(bookings, b, caller)
     IN  IF err # "" THEN
           /\ resp' = Err("confirm_receipt", caller, b, err)
           /\ UNCHANGED <<bookings, users, transfers>>
         ELSE
           LET bk == bookings[b]
               us == Credit(users, bk.owner_id, owner_payout(bk))
           IN  /\ bookings' = [bookings EXCEPT ![b] = confirm_receipt_update(bk)]
               /\ users' = us
               /\ \E outcome \in TransferOutcomes(us, bk.owner_id) :
                    transfers' =
                      IF outcome = "not attempted" THEN transfers
                      ELSE Append(transfers,
                                  [booking_id |-> b, destination |-> bk.owner_id,
                                   amount |-> owner_payout(bk), outcome |-> outcome])
               /\ resp' = Ok("confirm_receipt", caller, b)
  /\ UNCHANGED <<payment_transactions, payouts, inflight, listings, messages>>
  /\ request' = NoRequest

\* ---------------------------------------------------------- report_issue
\* faulty variant: report_issue with a `status != "paid"` guard
report_issue_check_paid_only(bs, b, caller) ==
  IF b \notin 1..Len(bs) THEN "Booking not found"
  ELSE IF bs[b].renter_id # caller THEN "Only the renter can report issues"
  ELSE IF bs[b].status # "paid" THEN "Booking must be paid first"
  ELSE ""

report_issue_check(bs, b, caller) ==
  IF b \notin 1..Len(bs) THEN "Booking not found"
  ELSE IF bs[b].renter_id # caller THEN "Only the renter can report issues"
  ELSE ""

\* faulty variant: a dispute that also pushes the release deadline back
report_issue_update_extends_release(bk) ==
  [bk EXCEPT !.status = "disputed", !.escrow_status = "held",
             !.auto_release_date = @ + AUTO_RELEASE_DAYS]

\* the $set of report_issue
report_issue_update(bk) ==
  [bk EXCEPT !.status = "disputed", !.escrow_status = "held"]

ReportIssue(caller, b) ==
  /\ LET err == report_issue_check(bookings, b, caller)
     IN  IF err # "" THEN
           /\ resp' = Err("report_issue", caller, b, err)
           /\ UNCHANGED bookings
         ELSE
           /\ bookings' = [bookings EXCEPT ![b] = report_issue_update(bookings[b])]
           /\ resp' = Ok("report_issue", caller, b)
  /\ UNCHANGED <<users, payment_transactions, payouts, transfers, inflight, listings, messages>>
  /\ request' = NoRequest

\* ----------------------------------------- create_stripe_connect_account
\* A user without a Stripe account gets one and its id is saved on the user
\* document; a user who has one only gets a new onboarding link.
CreateStripeConnectAccount(caller) ==
  /\ users' = IF users[caller].stripe_account_id THEN users
              ELSE [users EXCEPT ![caller].stripe_account_id = TRUE]
  /\ resp' = Ok("create_stripe_connect_account", caller, 0)
  /\ UNCHANGED <<bookings, payment_transactions, payouts, transfers, inflight, listings, messages>>
  /\ request' = NoRequest

\* ----------------------------------------------- get_stripe_connect_status
\* account: what stripe.Account.retrieve answers for the caller's account:
\* "connected" (details_submitted and charges_enabled), "incomplete", or
\* "error" (StripeError). A caller without stripe_account_id is answered
\* before Stripe is asked. The only field written is stripe_connected.
StripeAccountAnswers == {"connected", "incomplete", "error"}

GetStripeConnectStatus(caller, account) ==
  /\ IF ~users[caller].stripe_account_id THEN
       /\ resp' = [Ok("get_stripe_connect_status", caller, 0) EXCEPT !.detail = "no account"]
       /\ UNCHANGED users
     ELSE IF account = "error" THEN
       /\ resp' = [Ok("get_stripe_connect_status", caller, 0) EXCEPT !.detail = "error"]
       /\ UNCHANGED users
     ELSE
       LET is_connected == (account = "connected")
       IN  /\ users' = IF is_connected # users[caller].stripe_connected
                       THEN [users EXCEPT ![caller].stripe_connected = is_connected]
                       ELSE users
           /\ resp' = [Ok("get_stripe_connect_status", caller, 0) EXCEPT !.detail = account]
  /\ UNCHANGED <<bookings, payment_transactions, payouts, transfers, inflight, listings, messages>>
  /\ request' = NoRequest

\* ------------------------------------------------------- create_checkout
create_checkout_check(bs, b, caller) ==
  IF b \notin 1..Len(bs) THEN "Booking not found"
  ELSE IF bs[b].renter_id # caller THEN "Not authorized"
  ELSE IF bs[b].status = "paid" THEN "Booking already paid"
  ELSE ""

transaction_doc(us, bk, b, caller) ==
  [ booking_id |-> b, user_id |-> caller, owner_id |-> bk.owner_id,
    amount |-> bk.total_price, platform_fee |-> bk.platform_fee,
    owner_amount |-> bk.total_price - bk.platform_fee,
    auto_payout |-> us[bk.owner_id].stripe_account_id,
    status |-> "initiated", payment_status |-> "pending" ]

\* stripe_ok: whether stripe.checkout.Session.create returned a session
CreateCheckout(caller, b, stripe_ok) ==
  /\ RoomForSession
  /\ LET err == create_checkout_check(bookings, b, caller)
     IN  IF err # "" THEN
           /\ resp' = Err("create_checkout", caller, b, err)
           /\ UNCHANGED payment_transactions
         ELSE IF ~stripe_ok THEN
           /\ resp' = Err("create_checkout", caller, b, "StripeError")
           /\ UNCHANGED payment_transactions
         ELSE
           /\ payment_transactions' =
                Append(payment_transactions, transaction_doc(users, bookings[b], b, caller))
           /\ resp' = Ok("create_checkout", caller, Len(payment_transactions) + 1)
  /\ UNCHANGED <<bookings, users, payouts, transfers, inflight, listings, messages>>
  /\ request' = NoRequest

\* ---------------------------------------------------- get_payment_status
\* session: what stripe.checkout.Session.retrieve reports
\*          ("paid", "open", "expired", or "error" for a StripeError)
payment_status_of(session) ==
  IF session = "paid" THEN "paid"
  ELSE IF session = "expired" THEN "expired"
  ELSE "pending"

get_payment_status_check(txs, sid, caller) ==
  IF sid \notin 1..Len(txs) THEN "Transaction not found"
  ELSE IF txs[sid].user_id # caller THEN "Not authorized"
  ELSE ""

\* faulty variant: the $set on the transaction without payment_status
transaction_paid_status_only(tx) == [tx EXCEPT !.status = "completed"]

\* the $set on the transaction when the payment is seen paid
transaction_paid(tx) ==
  [tx EXCEPT !.status = "completed", !.payment_status = "paid"]

\* the $set on the booking when the payment is seen paid
booking_paid(bk) == [bk EXCEPT !.status = "paid"]

\* the writes of get_payment_status for a session first seen paid: the
\* transaction, the booking, and the owner's earnings unless the
\* transaction is auto_payout; db.payouts is not written
PollPaid(sid) ==
  LET tx == payment_transactions[sid]
  IN  [ payment_transactions |->
          [payment_transactions EXCEPT ![sid] = transaction_paid(tx)],
        bookings |-> [bookings EXCEPT ![tx.booking_id] = booking_paid(@)],
        users |-> IF ~tx.auto_payout
                  THEN Credit(users, tx.owner_id, tx.owner_amount)
                  ELSE users,
        payouts |-> payouts ]

GetPaymentStatus(caller, sid, session) ==
  /\ LET err == get_payment_status_check(payment_transactions, sid, caller)
     IN  IF err # "" THEN
           /\ resp' = Err("get_payment_status", caller, sid, err)
           /\ UNCHANGED <<bookings, users, payment_transactions>>
         ELSE IF session = "error" THEN
           /\ resp' = Err("get_payment_status", caller, sid, "StripeError")
           /\ UNCHANGED <<bookings, users, payment_transactions>>
         ELSE
           LET tx == payment_transactions[sid]
           IN  /\ IF payment_status_of(session) = "paid" /\ tx.payment_status # "paid"
                  THEN LET paid == PollPaid(sid)
                       IN  /\ payment_transactions' = paid.payment_transactions
                           /\ bookings' = paid.bookings
                           /\ users' = paid.users
                  ELSE UNCHANGED <<bookings, users, payment_transactions>>
               /\ resp' = [Ok("get_payment_status", caller, sid)
                             EXCEPT !.detail = payment_status_of(session)]
  /\ UNCHANGED <<payouts, transfers, inflight, listings, messages>>
  /\ request' = NoRequest

\* -------------------------------------------------------- stripe_webhook
\* a verified webhook event with payment_status "paid" for session sid
payout_doc(bk, b, amount) ==
  [owner_id |-> bk.owner_id, booking_id |-> b, amount |-> amount, status |-> "pending"]

\* the writes of stripe_webhook for a session first seen paid: the
\* transaction, the booking, the owner's earnings and a payout record
WebhookPaid(sid) ==
  LET tx == payment_transactions[sid]
      bk == bookings[tx.booking_id]
  IN  [ payment_transactions |->
          [payment_transactions EXCEPT ![sid] = transaction_paid(tx)],
        bookings |-> [bookings EXCEPT ![tx.booking_id] = booking_paid(@)],
        users |-> Credit(users, bk.owner_id, tx.owner_amount),
        payouts |-> Append(payouts, payout_doc(bk, tx.booking_id, tx.owner_amount)) ]

StripeWebhook(sid) ==
  /\ IF sid \in SessionIds /\ payment_transactions[sid].payment_status # "paid"
     THEN LET paid == WebhookPaid(sid)
          IN  /\ payment_transactions' = paid.payment_transactions
              /\ bookings' = paid.bookings
              /\ users' = paid.users
              /\ payouts' = paid.payouts
     ELSE UNCHANGED <<bookings, users, payment_transactions, payouts>>
  /\ resp' = [Ok("stripe_webhook", "", sid) EXCEPT !.detail = "ok"]
  /\ UNCHANGED <<transfers, inflight, listings, messages>>
  /\ request' = NoRequest

\* ------------------------------------- create_booking, await by await
\* The handler awaits db.bookings.find_one, then runs without suspending up
\* to `await db.bookings.insert_one`: other handlers run between the two.
CreateBookingFind(u, l, s, e, dt, h) ==
  /\ Len(inflight) < MaxInflight
  /\ LET pre == CreateBookingPrecheck(u, l, s, e)
         price == BasePrice(listings[l], s, e, dt, h)
         err == IF pre # "" THEN pre
                ELSE IF Conflict(bookings, l, s, e) THEN "Dates not available"
                ELSE IF ~price.ok THEN price.detail
                ELSE ""
     IN  IF err # "" THEN
           /\ resp' = Err("create_booking", u, 0, err)
           /\ request' = Request(u, l, s, e, dt, h)
           /\ UNCHANGED inflight
         ELSE
           /\ inflight' = Append(inflight, booking_doc(u, l, s, e, dt, h))
           /\ UNCHANGED <<resp, request>>
  /\ UNCHANGED <<bookings, users, payment_transactions, payouts, transfers, listings, messages>>

CreateBookingInsert(i) ==
  /\ i \in 1..Len(inflight)
  /\ RoomForBooking
  /\ bookings' = Append(bookings, inflight[i])
  /\ inflight' = [k \in 1..(Len(inflight) - 1) |->
                    IF k < i THEN inflight[k] ELSE inflight[k + 1]]
  /\ resp' = Ok("create_booking", inflight[i].renter_id, Len(bookings) + 1)
  /\ UNCHANGED <<users, payment_transactions, payouts, transfers, listings, messages>>
  /\ request' = RequestOf(inflight[i])

\* ------------------------- the payment handlers, await by await
\* Both handlers await db.payment_transactions.find_one, test the document
\* they were handed, and only then await their update_one calls: other
\* handlers run between the read and the writes.
Remove(q, i) == [k \in 1..(Len(q) - 1) |-> IF k < i THEN q[k] ELSE q[k + 1]]

suspended(op, caller, sid, tx) ==
  [op |-> op, caller |-> caller, sid |-> sid, transaction |-> tx]

GetPaymentStatusFind(caller, sid, session) ==
  /\ Len(inflight) < MaxInflight
  /\ LET err == get_payment_status_check(payment_transactions, sid, caller)
     IN  IF err # "" THEN
           /\ resp' = Err("get_payment_status", caller, sid, err)
           /\ UNCHANGED inflight
         ELSE IF session = "error" THEN
           /\ resp' = Err("get_payment_status", caller, sid, "StripeError")
           /\ UNCHANGED inflight
         ELSE IF /\ payment_status_of(session) = "paid"
                 /\ payment_transactions[sid].payment_status # "paid" THEN
           /\ inflight' = Append(inflight,
                                 suspended("get_payment_status", caller, sid,
                                           payment_transactions[sid]))
           /\ UNCHANGED resp
         ELSE
           /\ resp' = [Ok("get_payment_status", caller, sid)
                         EXCEPT !.detail = payment_status_of(session)]
           /\ UNCHANGED inflight
  /\ UNCHANGED <<bookings, users, payment_transactions, payouts, transfers, listings, messages>>
  /\ request' = NoRequest

GetPaymentStatusUpdate(i) ==
  /\ i \in 1..Len(inflight)
  /\ inflight[i].op = "get_payment_status"
  /\ LET tx == inflight[i].transaction
         sid == inflight[i].sid
     IN  /\ payment_transactions' =
              [payment_transactions EXCEPT ![sid] = transaction_paid(@)]
         /\ bookings' = [bookings EXCEPT ![tx.booking_id] = booking_paid(@)]
         /\ users' = IF ~tx.auto_payout
                     THEN Credit(users, tx.owner_id, tx.owner_amount)
                     ELSE users
         /\ resp' = [Ok("get_payment_status", inflight[i].caller, sid)
                       EXCEPT !.detail = "paid"]
  /\ inflight' = Remove(inflight, i)
  /\ UNCHANGED <<payouts, transfers, listings, messages>>
  /\ request' = NoRequest

StripeWebhookFind(sid) ==
  /\ Len(inflight) < MaxInflight
  /\ IF sid \in SessionIds /\ payment_transactions[sid].payment_status # "paid"
     THEN /\ inflight' = Append(inflight,
                                suspended("stripe_webhook", "", sid,
                                          payment_transactions[sid]))
          /\ UNCHANGED resp
     ELSE /\ resp' = [Ok("stripe_webhook", "", sid) EXCEPT !.detail = "ok"]
          /\ UNCHANGED inflight
  /\ UNCHANGED <<bookings, users, payment_transactions, payouts, transfers, listings, messages>>
  /\ request' = NoRequest

StripeWebhookUpdate(i) ==
  /\ i \in 1..Len(inflight)
  /\ inflight[i].op = "stripe_webhook"
  /\ LET tx == inflight[i].transaction
         sid == inflight[i].sid
         bk == bookings[tx.booking_id]
     IN  /\ payment_transactions' =
              [payment_transactions EXCEPT ![sid] = transaction_paid(@)]
         /\ bookings' = [bookings EXCEPT ![tx.booking_id] = booking_paid(@)]
         /\ users' = Credit(users, bk.owner_id, tx.owner_amount)
         /\ payouts' = Append(payouts, payout_doc(bk, tx.booking_id, tx.owner_amount))
         /\ resp' = [Ok("stripe_webhook", "", sid) EXCEPT !.detail = "ok"]
  /\ inflight' = Remove(inflight, i)
  /\ UNCHANGED <<transfers, listings, messages>>
  /\ request' = NoRequest

\* ---------------------------------------------------------- send_message
\* A message text is a sequence of words. filter_contact_info rewrites the
\* words its patterns match: a phone number, an e-mail address, a payment or
\* social-media keyword; every other word is kept.
PhoneWords == {"5551234567"}
EmailWords == {"bob@mail.com"}
SocialWords == {"whatsapp"}

filter_word(w) ==
  IF w \in PhoneWords THEN "[phone hidden]"
  ELSE IF w \in EmailWords THEN "[email hidden]"
  ELSE IF w \in SocialWords THEN "[removed]"
  ELSE w

\* returns <<filtered, was_filtered>>
filter_contact_info(text) ==
  LET filtered == [i \in 1..Len(text) |-> filter_word(text[i])]
  IN  <<filtered, filtered # text>>

\* faulty variant: any booking between the two users on the listing counts
has_paid_booking_any_status(bs, listing_id, sender, recipient) ==
  /\ listing_id # ""
  /\ \E b \in 1..Len(bs) :
       /\ bs[b].listing_id = listing_id
       /\ \/ bs[b].renter_id = sender /\ bs[b].owner_id = recipient
          \/ bs[b].renter_id = recipient /\ bs[b].owner_id = sender

\* the find_one on db.bookings, made only when the message names a listing
has_paid_booking(bs, listing_id, sender, recipient) ==
  /\ listing_id # ""
  /\ \E b \in 1..Len(bs) :
       /\ bs[b].listing_id = listing_id
       /\ bs[b].status = "paid"
       /\ \/ bs[b].renter_id = sender /\ bs[b].owner_id = recipient
          \/ bs[b].renter_id = recipient /\ bs[b].owner_id = sender

message_doc(bs, sender, recipient, listing_id, content) ==
  LET f == filter_contact_info(content)
      paid == has_paid_booking(bs, listing_id, sender, recipient)
  IN  [ sender_id |-> sender, recipient_id |-> recipient,
        content |-> IF paid THEN content ELSE f[1],
        listing_id |-> listing_id,
        was_filtered |-> IF paid THEN FALSE ELSE f[2] ]

SendMessage(sender, recipient, listing_id, content) ==
  /\ Len(messages) < MaxMessages
  /\ IF recipient \notin Users THEN
       /\ resp' = Err("send_message", sender, 0, "Recipient not found")
       /\ UNCHANGED messages
     ELSE
       /\ messages' = Append(messages,
                             message_doc(bookings, sender, recipient, listing_id, content))
       /\ resp' = Ok("send_message", sender, Len(messages) + 1)
  /\ UNCHANGED <<bookings, users, payment_transactions, payouts, transfers,
                 inflight, listings>>
  /\ request' = NoRequest

\* ------------------------------------------------------------------ spec
NoResp == [op |-> "none", ok |-> TRUE, detail |-> "", caller |-> "", id |-> 0]

Init ==
  /\ bookings = <<>>
  /\ users = [u \in Users |->
                [total_earnings |-> 0, pending_payout |-> 0,
                 stripe_account_id |-> FALSE, stripe_onboarding_complete |-> FALSE,
                 stripe_connected |-> FALSE]]
  /\ payment_transactions = <<>>
  /\ payouts = <<>>
  /\ transfers = <<>>
  /\ inflight = <<>>
  /\ resp = NoResp
  /\ listings = Listings
  /\ messages = <<>>
  /\ request = NoRequest

Next ==
  \/ \E u \in Users, l \in ListingIds, s \in Days, e \in Days :
       CreateBooking(u, l, s, e, "daily", 0)
  \/ \E u \in Users, b \in BookingArgs, st \in OwnerStatuses \cup {"paid"} :
       UpdateBookingStatus(u, b, st)
  \/ \E u \in Users, b \in BookingArgs : ConfirmReceipt(u, b)
  \/ \E u \in Users, b \in BookingArgs : ReportIssue(u, b)
  \/ \E u \in Owners : CreateStripeConnectAccount(u)
  \/ \E u \in Users, b \in BookingArgs, ok \in BOOLEAN : CreateCheckout(u, b, ok)
  \/ \E u \in Users, sid \in SessionArgs,
        session \in {"paid", "open", "expired", "error"} :
       GetPaymentStatus(u, sid, session)
  \/ \E sid \in SessionArgs : StripeWebhook(sid)

Spec == Init /\ [][Next]_vars

\* stripe_onboarding_complete is written by no handler of server.py: it is
\* set on a stored user document from outside. SpecOnboarded starts from a
\* store where the owners' documents carry it, so that confirm_receipt
\* calls stripe.Transfer.create once the owner has a stripe_account_id.
InitOnboarded ==
  /\ bookings = <<>>
  /\ users = [u \in Users |->
                [total_earnings |-> 0, pending_payout |-> 0,
                 stripe_account_id |-> FALSE,
                 stripe_onboarding_complete |-> (u \in Owners),
                 stripe_connected |-> FALSE]]
  /\ payment_transactions = <<>>
  /\ payouts = <<>>
  /\ transfers = <<>>
  /\ inflight = <<>>
  /\ resp = NoResp
  /\ listings = Listings
  /\ messages = <<>>
  /\ request = NoRequest

SpecOnboarded == InitOnboarded /\ [][Next]_vars

\* Stripe Connect onboarding through the handlers: the owner creates the
\* account, asks for its status, and the renter books, pays and confirms
\* receipt.
ConnectNext ==
  \/ \E u \in Users, l \in ListingIds, s \in Days, e \in Days :
       CreateBooking(u, l, s, e, "daily", 0)
  \/ \E u \in Users, b \in BookingArgs : ConfirmReceipt(u, b)
  \/ \E u \in Owners : CreateStripeConnectAccount(u)
  \/ \E u \in Owners, account \in StripeAccountAnswers :
       GetStripeConnectStatus(u, account)
  \/ \E u \in Users, b \in BookingArgs, ok \in BOOLEAN : CreateCheckout(u, b, ok)
  \/ \E u \in Users, sid \in SessionArgs,
        session \in {"paid", "open", "expired", "error"} :
       GetPaymentStatus(u, sid, session)

ConnectSpec == Init /\ [][ConnectNext]_vars

\* Messaging beside the life of a booking: the renter books, pays, and the
\* booking is completed, disputed or cancelled, while the two users write
\* to each other.
MessageRecipients == Users \cup {"nobody"}
MessageListings == {"", "l1", "l2"}
MessageContents == { <<"hello">>, <<"whatsapp", "5551234567">> }

MsgNext ==
  \/ \E u \in Users, l \in ListingIds : CreateBooking(u, l, 1, 2, "daily", 0)
  \/ \E u \in Users, b \in BookingIds : UpdateBookingStatus(u, b, "cancelled")
  \/ \E u \in Users, b \in BookingIds : ConfirmReceipt(u, b)
  \/ \E u \in Users, b \in BookingIds : ReportIssue(u, b)
  \/ \E u \in Users, b \in BookingIds : CreateCheckout(u, b, TRUE)
  \/ \E u \in Users, sid \in SessionIds : GetPaymentStatus(u, sid, "paid")
  \/ \E s \in Users, r \in MessageRecipients, l \in MessageListings,
        c \in MessageContents :
       SendMessage(s, r, l, c)

MsgSpec == Init /\ [][MsgNext]_vars

\* create_booking requests served concurrently, with the owner's status
\* updates between them
ConcNext ==
  \/ \E u \in Users, l \in ListingIds, s \in Days, e \in Days :
       CreateBookingFind(u, l, s, e, "daily", 0)
  \/ \E i \in 1..MaxInflight : CreateBookingInsert(i)
  \/ \E u \in Users, b \in BookingArgs, st \in OwnerStatuses \cup {"paid"} :
       UpdateBookingStatus(u, b, st)

ConcSpec == Init /\ [][ConcNext]_vars

\* ------------------------------------------------ the pricing inputs
\* The listing documents create_listing can store (ListingCreate sets no
\* range on any field) and the requests a renter can send, for the
\* pricing section of create_booking.
SurgeSettings ==
  { [enabled |-> FALSE, percentage |-> 20, weekends |-> TRUE, dates |-> {}] }
  \cup { [enabled |-> TRUE, percentage |-> p, weekends |-> w, dates |-> d] :
           p \in {0, 20, 40}, w \in BOOLEAN, d \in {{}, {2}} }

\* <<discount_weekly, discount_monthly, discount_quarterly>>
DiscountSettings ==
  { <<0, 0, 0>>, <<20, 0, 60>>, <<20, 40, 0>>, <<20, 40, 60>>, <<120, 0, 0>> }

ListingConfigs ==
  { [ NoListing EXCEPT
        !.price_per_hour = ph, !.price_per_day = pd, !.price_per_week = pw,
        !.min_rental_hours = mh, !.min_rental_days = md,
        !.surge_enabled = sg.enabled, !.surge_percentage = sg.percentage,
        !.surge_weekends = sg.weekends, !.surge_dates = sg.dates,
        !.discount_weekly = ds[1], !.discount_monthly = ds[2],
        !.discount_quarterly = ds[3] ] :
      ph \in {0, 1500}, pd \in {0, 1, 3333, 10000}, pw \in {0, 20000},
      mh \in {1, 2}, md \in {1, 2},
      sg \in SurgeSettings, ds \in DiscountSettings }

\* start on a Tuesday (day 1), a Friday (day 4) or a Saturday (day 5)
PriceStarts == {1, 4, 5}
\* end_date - start_date, in days
PriceSpans == {0, 1, 2, 3, 7, 30, 90}
\* <<duration_type, hours>>
PriceDurations ==
  { <<"hourly", 0>>, <<"hourly", 1>>, <<"hourly", 2>>, <<"daily", 0>>, <<"weekly", 0>> }

PriceRequests ==
  { Request("bob", l, s, s + n, d[1], d[2]) :
      l \in ListingIds, s \in PriceStarts, n \in PriceSpans, d \in PriceDurations }

\* an empty store, one of the listing documents, and a request to serve
PriceInit ==
  /\ bookings = <<>>
  /\ users = [u \in Users |->
                [total_earnings |-> 0, pending_payout |-> 0,
                 stripe_account_id |-> FALSE, stripe_onboarding_complete |-> FALSE,
                 stripe_connected |-> FALSE]]
  /\ payment_transactions = <<>>
  /\ payouts = <<>>
  /\ transfers = <<>>
  /\ inflight = <<>>
  /\ resp = NoResp
  /\ listings \in [ListingIds -> ListingConfigs]
  /\ messages = <<>>
  /\ request \in PriceRequests

\* the renter sends the request (and may send it again)
PriceNext ==
  CreateBooking(request.renter_id, request.listing_id, request.start_date,
                request.end_date, request.duration_type, request.hours)

PriceSpec == PriceInit /\ [][PriceNext]_vars

\* ------------------------------------- priced bookings through their life
\* The handlers of Spec, on a listing with or without surge and discount,
\* for requests of three and of seven days.
LifeListings ==
  { Listings["l1"],
    [ NoListing EXCEPT !.price_per_day = 3333, !.surge_enabled = TRUE,
                       !.discount_weekly = 20 ] }

\* <<start_date, end_date>>: Friday to Monday, Tuesday to Tuesday
LifeDates == { <<4, 7>>, <<1, 8>> }

LifeInit ==
  /\ bookings = <<>>
  /\ users = [u \in Users |->
                [total_earnings |-> 0, pending_payout |-> 0,
                 stripe_account_id |-> FALSE, stripe_onboarding_complete |-> FALSE,
                 stripe_connected |-> FALSE]]
  /\ payment_transactions = <<>>
  /\ payouts = <<>>
  /\ transfers = <<>>
  /\ inflight = <<>>
  /\ resp = NoResp
  /\ listings \in [ListingIds -> LifeListings]
  /\ messages = <<>>
  /\ request = NoRequest

LifeNext ==
  \/ \E u \in Users, l \in ListingIds, d \in LifeDates :
       CreateBooking(u, l, d[1], d[2], "daily", 0)
  \/ \E u \in Users, b \in BookingArgs, st \in OwnerStatuses \cup {"paid"} :
       UpdateBookingStatus(u, b, st)
  \/ \E u \in Users, b \in BookingArgs : ConfirmReceipt(u, b)
  \/ \E u \in Users, b \in BookingArgs : ReportIssue(u, b)
  \/ \E u \in Owners : CreateStripeConnectAccount(u)
  \/ \E u \in Users, b \in BookingArgs, ok \in BOOLEAN : CreateCheckout(u, b, ok)
  \/ \E u \in Users, sid \in SessionArgs,
        session \in {"paid", "open", "expired", "error"} :
       GetPaymentStatus(u, sid, session)
  \/ \E sid \in SessionArgs : StripeWebhook(sid)

LifeSpec == LifeInit /\ [][LifeNext]_vars

\* payment confirmations served concurrently, for sessions that renters
\* opened on their bookings
PayConcNext ==
  \/ \E u \in Users, l \in ListingIds, s \in Days, e \in Days :
       CreateBooking(u, l, s, e, "daily", 0)
  \/ \E u \in Users, b \in BookingArgs, ok \in BOOLEAN : CreateCheckout(u, b, ok)
  \/ \E u \in Users, sid \in SessionArgs,
        session \in {"paid", "open", "expired", "error"} :
       GetPaymentStatusFind(u, sid, session)
  \/ \E i \in 1..MaxInflight : GetPaymentStatusUpdate(i)
  \/ \E sid \in SessionArgs : StripeWebhookFind(sid)
  \/ \E i \in 1..MaxInflight : StripeWebhookUpdate(i)

PayConcSpec == Init /\ [][PayConcNext]_vars

\* ====================================================================
\* Properties
\* ====================================================================
Overlap(a, b) == a.start_date <= b.end_date /\ a.end_date >= b.start_date

\* C1: no two distinct bookings of the same listing that both have a status
\* in {pending, confirmed, paid} have overlapping date ranges.
NoDoubleBooking ==
  \A i \in BookingIds, j \in BookingIds :
    ( /\ i # j
      /\ bookings[i].listing_id = bookings[j].listing_id
      /\ bookings[i].status \in ActiveStatuses
      /\ bookings[j].status \in ActiveStatuses )
    => ~Overlap(bookings[i], bookings[j])

\* C2: of create_booking requests served concurrently, one that overlaps an
\* active booking of its listing never inserts: whenever a booking is
\* inserted, no active booking of that listing overlaps it at that moment.
ConcurrentCreateExclusive ==
  [][ Len(bookings') = Len(bookings) + 1 =>
        LET nb == bookings'[Len(bookings')]
        IN  ~Conflict(bookings, nb.listing_id, nb.start_date, nb.end_date) ]_vars

\* C3: a second confirm_receipt by the renter on the booking whose receipt
\* was just confirmed fails with 'Receipt already confirmed' and credits
\* nothing.
SecondConfirmAlreadyProcessed ==
  [][ ( /\ resp.op = "confirm_receipt" /\ resp.ok
        /\ resp'.op = "confirm_receipt"
        /\ resp'.caller = resp.caller /\ resp'.id = resp.id )
      => ( /\ ~resp'.ok
           /\ resp'.detail = "Receipt already confirmed"
           /\ users' = users ) ]_vars

\* C4: confirm_receipt succeeds only for the renter of a paid booking whose
\* receipt is not yet confirmed; any other call returns an error and leaves
\* the bookings and the users (total_earnings, pending_payout) unchanged.
ConfirmReceiptAllowed(b, caller) ==
  /\ b \in BookingIds
  /\ bookings[b].renter_id = caller
  /\ bookings[b].status = "paid"
  /\ ~bookings[b].receipt_confirmed

ConfirmReceiptGuarded ==
  [][ resp'.op = "confirm_receipt" =>
        /\ resp'.ok => ConfirmReceiptAllowed(resp'.id, resp'.caller)
        /\ ~ConfirmReceiptAllowed(resp'.id, resp'.caller) =>
             ~resp'.ok /\ bookings' = bookings /\ users' = users ]_vars

ConfirmReceiptRefusedSeen ==
  /\ resp.op = "confirm_receipt" /\ ~resp.ok
  /\ resp.detail = "Receipt already confirmed"
  /\ resp.id \in BookingIds
  /\ bookings[resp.id].renter_id = resp.caller
  /\ users["alice"].total_earnings > 0

\* C5: a successful confirm_receipt sets receipt_confirmed, escrow_status =
\* released and status = completed, and adds exactly total_price -
\* platform_fee to the owner's total_earnings and pending_payout, whatever
\* the transfer does.
ConfirmReceiptEffect ==
  [][ (resp'.op = "confirm_receipt" /\ resp'.ok) =>
        LET b == resp'.id
            bk == bookings[b]
            paid_out == bk.total_price - bk.platform_fee
        IN  /\ bookings'[b].receipt_confirmed
            /\ bookings'[b].escrow_status = "released"
            /\ bookings'[b].status = "completed"
            /\ users'[bk.owner_id].total_earnings
                 = users[bk.owner_id].total_earnings + paid_out
            /\ users'[bk.owner_id].pending_payout
                 = users[bk.owner_id].pending_payout + paid_out
            /\ \A u \in Users \ {bk.owner_id} : users'[u] = users[u] ]_vars

ConfirmReceiptSucceeded ==
  /\ resp.op = "confirm_receipt" /\ resp.ok
  /\ bookings[resp.id].status = "completed"
  /\ bookings[resp.id].platform_fee > 0
  /\ users[bookings[resp.id].owner_id].pending_payout > 0
  /\ \E i \in 1..Len(transfers) :
       transfers[i].booking_id = resp.id /\ transfers[i].outcome = "failed"

\* C6: a booking with status = paid has escrow_status = held.
PaidImpliesHeld ==
  \A b \in BookingIds :
    bookings[b].status = "paid" => bookings[b].escrow_status = "held"

\* C7: a booking's status becomes paid only from pending or confirmed.
PaidOnlyFromPrePaid ==
  [][ \A b \in BookingIds :
        (bookings'[b].status = "paid" /\ bookings[b].status # "paid")
        => bookings[b].status \in {"pending", "confirmed"} ]_vars

\* C8: every status change the owner makes through update_booking_status is
\* pending -> confirmed, pending -> rejected, or pending|confirmed ->
\* cancelled.
OwnerTransitions ==
  { <<"pending", "confirmed">>, <<"pending", "rejected">>,
    <<"pending", "cancelled">>, <<"confirmed", "cancelled">> }

OwnerFollowsStateMachine ==
  [][ (resp'.op = "update_booking_status" /\ resp'.ok) =>
        \A b \in BookingIds :
          bookings'[b].status # bookings[b].status
          => <<bookings[b].status, bookings'[b].status>> \in OwnerTransitions ]_vars

\* C9: a booking with status = completed has receipt_confirmed = true and
\* escrow_status = released.
CompletedImpliesReleased ==
  \A b \in BookingIds :
    bookings[b].status = "completed"
    => bookings[b].receipt_confirmed /\ bookings[b].escrow_status = "released"

\* C10: a booking with escrow_status = released has receipt_confirmed =
\* true, and receipt_confirmed, once true, stays true.
ReleasedOnlyByReceipt ==
  /\ [](\A b \in BookingIds :
          bookings[b].escrow_status = "released" => bookings[b].receipt_confirmed)
  /\ [][ \A b \in BookingIds :
           bookings[b].receipt_confirmed => bookings'[b].receipt_confirmed ]_vars

ReceiptLatchedAfterDispute ==
  \E b \in BookingIds :
    /\ bookings[b].receipt_confirmed
    /\ bookings[b].status = "disputed"
    /\ bookings[b].escrow_status = "held"

\* C11: a 'paid' signal for a checkout session (a get_payment_status poll
\* that sees the session paid, or a stripe_webhook delivery) that comes
\* after an earlier one for the same session, handlers taken one after
\* another, leaves the payment transactions, the bookings, the users
\* (total_earnings, pending_payout) and the payouts unchanged.
PaidSignal(r) ==
  \/ r.op = "stripe_webhook"
  \/ r.op = "get_payment_status" /\ r.ok /\ r.detail = "paid"

PaidSignalIdempotent ==
  [][ ( /\ PaidSignal(resp')
        /\ resp'.id \in SessionIds
        /\ \/ payment_transactions[resp'.id].payment_status = "paid"
           \/ PaidSignal(resp) /\ resp.id = resp'.id )
      => UNCHANGED <<payment_transactions, bookings, users, payouts>> ]_vars

\* a webhook delivery was the last call, for a session that a poll had
\* already settled (no payout record, which only the webhook writes)
PaidSignalRepeated ==
  /\ resp.op = "stripe_webhook"
  /\ resp.id \in SessionIds
  /\ payment_transactions[resp.id].payment_status = "paid"
  /\ payouts = <<>>
  /\ users[payment_transactions[resp.id].owner_id].total_earnings
       = payment_transactions[resp.id].owner_amount

\* C12: when payment confirmations for the same paid checkout session are
\* processed concurrently, the owner is credited at most once for that
\* session: an owner's total_earnings and pending_payout never exceed the
\* owner_amount of that owner's paid sessions, each counted once.
RECURSIVE PaidOwnerAmount(_, _, _)
PaidOwnerAmount(txs, o, n) ==
  IF n = 0 THEN 0
  ELSE PaidOwnerAmount(txs, o, n - 1)
       + ( IF txs[n].owner_id = o /\ txs[n].payment_status = "paid"
           THEN txs[n].owner_amount ELSE 0 )

CreditedOncePerSession ==
  \A o \in Users :
    LET paid == PaidOwnerAmount(payment_transactions, o, Len(payment_transactions))
    IN  users[o].total_earnings <= paid /\ users[o].pending_payout <= paid

\* C13: an event credits an owner's total_earnings / pending_payout exactly
\* when the same event appends a payout record of that owner for the
\* credited amount: no credit without its payout record, and no payout
\* record without its credit.
CreditWithPayoutRecord ==
  [][ \A o \in Users :
        LET gained == users'[o].total_earnings - users[o].total_earnings
        IN  ( gained # 0 \/ users'[o].pending_payout # users[o].pending_payout )
            <=> ( /\ Len(payouts') = Len(payouts) + 1
                  /\ payouts'[Len(payouts')].owner_id = o
                  /\ payouts'[Len(payouts')].amount = gained
                  /\ users'[o].pending_payout = users[o].pending_payout + gained ) ]_vars

\* C14: a create_booking request that passes the listing, ownership and
\* date-order checks is rejected with 'Dates not available', inserting
\* nothing, exactly when some stored booking of that listing with status
\* pending, confirmed or paid has start_date <= the request's end_date and
\* end_date >= the request's start_date; bookings with another status never
\* block.
Blocks(bk, req) ==
  /\ bk.listing_id = req.listing_id
  /\ bk.status \in {"pending", "confirmed", "paid"}
  /\ bk.start_date <= req.end_date
  /\ bk.end_date >= req.start_date

ReportIssueRenterOnly ==
  [][ ( resp'.op = "report_issue" /\ resp'.id \in BookingIds )
      => LET b == resp'.id
         IN  IF bookings[b].renter_id = resp'.caller
             THEN /\ resp'.ok
                  /\ bookings'[b].status = "disputed"
                  /\ bookings'[b].escrow_status = "held"
             ELSE /\ ~resp'.ok
                  /\ resp'.detail = "Only the renter can report issues"
                  /\ UNCHANGED <<bookings, users, payment_transactions,
                                 payouts, transfers>> ]_vars

\* an issue reported on a booking that was never paid
ReportIssueOnUnpaid ==
  /\ resp.op = "report_issue" /\ resp.ok
  /\ bookings[resp.id].renter_id = resp.caller
  /\ bookings[resp.id].status = "disputed"
  /\ bookings[resp.id].escrow_status = "held"
  /\ payment_transactions = <<>>

\* C16: create_booking refuses every daily request whose end_date is equal
\* to or earlier than its start_date: it returns an error and inserts no
\* booking, and for a request that passes the listing and ownership checks
\* the error is the date-order one, not the conflict query's.
EndNotAfterStartRejected ==
  [][ ( /\ resp'.op = "create_booking"
        /\ request'.duration_type = "daily"
        /\ request'.end_date <= request'.start_date )
      => ( /\ ~resp'.ok
           /\ bookings' = bookings
           /\ ( /\ request'.listing_id \in ListingIds
                /\ listings[request'.listing_id].owner_id # request'.renter_id )
              => resp'.detail = "End date must be after start date" ) ]_vars

\* C17: create_booking returns a validation error and inserts no booking
\* when the listing has no price for the requested duration type, when an
\* hourly request has hours missing, below 1 or below min_rental_hours
\* (whatever prices are configured), or when a daily request spans fewer
\* than min_rental_days days (a span being at least one day); the error is
\* one of the pricing section's unless an earlier check of the handler
\* (listing, ownership, date order, availability) already refused it.
SpanDays(req) ==
  IF req.end_date - req.start_date > 1 THEN req.end_date - req.start_date ELSE 1

InvalidRequest(L, req) ==
  \/ req.duration_type = "hourly" /\ L.price_per_hour = 0
  \/ req.duration_type = "daily" /\ L.price_per_day = 0
  \/ req.duration_type = "weekly" /\ L.price_per_week = 0
  \/ req.duration_type = "hourly"
       /\ (req.hours < 1 \/ req.hours < L.min_rental_hours)
  \/ req.duration_type = "daily" /\ SpanDays(req) < L.min_rental_days

ValidationDetails ==
  { "Hourly rental not available for this listing",
    "Daily rental not available for this listing",
    "Weekly rental not available for this listing",
    "Hours must be specified for hourly booking",
    "Minimum hours required", "Minimum days required" }

InvalidRequestRejected ==
  [][ ( /\ resp'.op = "create_booking"
        /\ request'.listing_id \in ListingIds
        /\ InvalidRequest(listings[request'.listing_id], request') )
      => ( /\ ~resp'.ok
           /\ bookings' = bookings
           /\ ( /\ CreateBookingPrecheck(request'.renter_id, request'.listing_id,
                                          request'.start_date, request'.end_date) = ""
                /\ ~\E i \in BookingIds : Blocks(bookings[i], request') )
              => resp'.detail \in ValidationDetails ) ]_vars

\* an hourly request refused for its hours alone
BelowMinimumHoursRefused ==
  /\ resp.op = "create_booking" /\ ~resp.ok
  /\ resp.detail = "Minimum hours required"
  /\ request.duration_type = "hourly"
  /\ request.hours >= 1
  /\ listings[request.listing_id].price_per_hour > 0
  /\ listings[request.listing_id].price_per_day > 0
  /\ bookings = <<>>

\* C18: every accepted daily booking to which no discount tier applies,
\* with days = max(1, end - start) and surge_days = the number of days d in
\* [start, end) with surge_enabled and ((d is a Saturday or Sunday and
\* surge_weekends) or d in surge_dates), has total_price =
\* round(price_per_day * (days - surge_days)
\*       + price_per_day * surge_days * (1 + surge_percentage / 100), 2).
ClaimedSurgeDays(L, req) ==
  Cardinality({ d \in req.start_date..(req.end_date - 1) :
                  /\ L.surge_enabled
                  /\ \/ (d % 7 \in {5, 6}) /\ L.surge_weekends
                     \/ d \in L.surge_dates })

NoTierApplies(L, days) ==
  /\ ~(days >= 90 /\ L.discount_quarterly > 0)
  /\ ~(days >= 30 /\ L.discount_monthly > 0)
  /\ ~(days >= 7 /\ L.discount_weekly > 0)

DailyTotalFormula ==
  \A b \in BookingIds :
    LET bk == bookings[b]
        L == listings[bk.listing_id]
        days == SpanDays(bk)
        surge_days == ClaimedSurgeDays(L, bk)
    IN  ( bk.duration_type = "daily" /\ NoTierApplies(L, days) )
        => bk.total_price
             = RoundCents(100 * L.price_per_day * (days - surge_days)
                          + L.price_per_day * surge_days * (100 + L.surge_percentage),
                          100)

\* C19 (as stated): every booking whose [start, end) range includes at
\* least one weekend day, on a listing with surge_enabled and
\* surge_weekends, has total_price > price_per_day * days.
WeekendInRange(bk) ==
  \E d \in bk.start_date..(bk.end_date - 1) : d % 7 \in {5, 6}

ClaimedTier(L, days) ==
  IF days >= 90 /\ L.discount_quarterly > 0 THEN L.discount_quarterly
  ELSE IF days >= 30 /\ L.discount_monthly > 0 THEN L.discount_monthly
  ELSE IF days >= 7 /\ L.discount_weekly > 0 THEN L.discount_weekly
  ELSE 0

OneDiscountTier ==
  \A b \in BookingIds :
    LET bk == bookings[b]
        L == listings[bk.listing_id]
        tier == ClaimedTier(L, SpanDays(bk))
        subtotal == BasePrice(L, bk.start_date, bk.end_date,
                              bk.duration_type, bk.hours).total
    IN  /\ bk.discount_applied = tier
        /\ bk.total_price = RoundCents(subtotal * (100 - tier), 100)

\* a 90-day booking with surge days on a listing with all three tiers set
QuarterlyTierAlone ==
  \E b \in BookingIds :
    LET bk == bookings[b]
        L == listings[bk.listing_id]
    IN  /\ bk.end_date - bk.start_date = 90
        /\ bk.duration_type = "daily"
        /\ L.discount_weekly > 0 /\ L.discount_monthly > 0
        /\ L.discount_quarterly > 0
        /\ bk.surge_days > 0
        /\ bk.discount_applied = L.discount_quarterly
        /\ bk.total_price > 0

\* C21: every accepted weekly booking, with days = max(1, end - start),
\* weeks = days div 7 and remaining = days mod 7, has the base price
\* price_per_week * weeks + per_day_rate * remaining, per_day_rate being
\* price_per_day or, when that is absent, price_per_week / 7; a booking
\* with no surge day and no discount tier stores that base, rounded, as its
\* total_price.
WeeklyBaseFormula ==
  \A b \in BookingIds :
    LET bk == bookings[b]
        L == listings[bk.listing_id]
        days == SpanDays(bk)
        weeks == days \div 7
        remaining == days % 7
        \* per_day_rate in sevenths of a cent
        rate7 == IF L.price_per_day # 0 THEN 7 * L.price_per_day ELSE L.price_per_week
    IN  ( /\ bk.duration_type = "weekly"
          /\ bk.surge_days = 0
          /\ NoTierApplies(L, days) )
        => bk.total_price
             = RoundCents(7 * L.price_per_week * weeks + rate7 * remaining, 7)

\* C22: in every reachable state every booking has platform_fee =
\* round(total_price * 0.05, 2), total_price being the total after any
\* discount, and no operation changes the total_price or the platform_fee
\* of a stored booking.
FeeIsFivePercent ==
  /\ [](\A b \in BookingIds :
          bookings[b].platform_fee = RoundCents(bookings[b].total_price * 5, 100))
  /\ [][ \A b \in BookingIds :
           /\ bookings'[b].total_price = bookings[b].total_price
           /\ bookings'[b].platform_fee = bookings[b].platform_fee ]_vars

\* a discounted booking with surge days, paid, confirmed and then disputed
FeeKeptThroughLife ==
  \E b \in BookingIds :
    /\ bookings[b].discount_applied > 0
    /\ bookings[b].surge_days > 0
    /\ bookings[b].total_price = 19731
    /\ bookings[b].platform_fee = 987
    /\ bookings[b].receipt_confirmed
    /\ bookings[b].status = "disputed"

\* C23: every booking that create_booking inserts has total_price >= 0,
\* for every listing that create_listing stores and every accepted request.
TotalPriceNonNegative ==
  \A b \in BookingIds : bookings[b].total_price >= 0

\* C24: every booking is created with status = pending, escrow_status =
\* pending, receipt_confirmed = false and auto_release_date = end_date + 3
\* days, and no later operation changes its auto_release_date.
CreatedPendingReleaseFixed ==
  /\ [][ Len(bookings') > Len(bookings) =>
           /\ Len(bookings') = Len(bookings) + 1
           /\ LET nb == bookings'[Len(bookings')]
              IN  /\ nb.status = "pending"
                  /\ nb.escrow_status = "pending"
                  /\ nb.receipt_confirmed = FALSE
                  /\ nb.auto_release_date = nb.end_date + 3 ]_vars
  /\ [][ \A b \in BookingIds :
           bookings'[b].auto_release_date = bookings[b].auto_release_date ]_vars

\* a booking paid through a checkout session, received, then disputed by
\* its renter, the deadline still three days after its end
ReleaseDateKept ==
  \E b \in BookingIds :
    /\ bookings[b].end_date = 2
    /\ bookings[b].auto_release_date = 5
    /\ bookings[b].receipt_confirmed
    /\ bookings[b].status = "disputed"
    /\ \E sid \in SessionIds :
         /\ payment_transactions[sid].booking_id = b
         /\ payment_transactions[sid].payment_status = "paid"

\* C25: when confirm_receipt succeeds for a booking whose owner completed
\* Stripe Connect onboarding (stripe_account_id stored and the account
\* reported connected), a transfer of total_price - platform_fee to that
\* owner is initiated.
TransferToConnectedOwner ==
  [][\A b \in BookingIds :
       ( /\ resp'.op = "confirm_receipt" /\ resp'.ok /\ resp'.id = b
         /\ b \in 1..Len(bookings)
         /\ users[bookings[b].owner_id].stripe_account_id
         /\ users[bookings[b].owner_id].stripe_connected )
       => /\ Len(transfers') = Len(transfers) + 1
          /\ transfers'[Len(transfers')].booking_id = b
          /\ transfers'[Len(transfers')].destination = bookings[b].owner_id
          /\ transfers'[Len(transfers')].amount
               = bookings[b].total_price - bookings[b].platform_fee]_vars

\* C26: send_message stores a message with its contact information left in
\* only if, when it is sent, a booking with status paid exists for the
\* message's listing between sender and recipient (one the renter, the
\* other the owner); in every other state, and when no listing is named,
\* the stored text is the filter's output.
ContactWords == PhoneWords \cup EmailWords \cup SocialWords

HasContactInfo(text) == \E i \in 1..Len(text) : text[i] \in ContactWords

PaidBookingBetween(l, a, b) ==
  \E k \in BookingIds :
    /\ bookings[k].listing_id = l
    /\ bookings[k].status = "paid"
    /\ {bookings[k].renter_id, bookings[k].owner_id} = {a, b}
    /\ a # b

UnfilteredOnlyWithPaidBooking ==
  [][Len(messages') > Len(messages) =>
       LET m == messages'[Len(messages')]
       IN  /\ Len(messages') = Len(messages) + 1
           /\ HasContactInfo(m.content) =>
                /\ m.listing_id # ""
                /\ PaidBookingBetween(m.listing_id, m.sender_id, m.recipient_id)
                /\ ~m.was_filtered
           /\ ~(m.listing_id # ""
                 /\ PaidBookingBetween(m.listing_id, m.sender_id, m.recipient_id))
                => /\ ~HasContactInfo(m.content)
                   /\ filter_contact_info(m.content)[1] = m.content]_vars

\* a message with contact information stored while the booking was paid,
\* and a later one between the same users on the same listing filtered
\* once the booking was completed
FilteredAgainAfterCompletion ==
  /\ Len(messages) = 2
  /\ messages[1].listing_id = "l1" /\ messages[2].listing_id = "l1"
  /\ messages[1].sender_id = messages[2].sender_id
  /\ messages[1].recipient_id = messages[2].recipient_id
  /\ HasContactInfo(messages[1].content) /\ ~messages[1].was_filtered
  /\ messages[2].was_filtered /\ ~HasContactInfo(messages[2].content)
  /\ \E b \in BookingIds :
       /\ bookings[b].status = "completed"
       /\ {bookings[b].renter_id, bookings[b].owner_id}
            = {messages[1].sender_id, messages[1].recipient_id}

\* C27: over the life of a booking the owner's total_earnings grows by at
\* most total_price - platform_fee on its account: an owner's
\* total_earnings is at most the sum of total_price - platform_fee over
\* that owner's bookings that have been paid.
BookingWasPaid(b) ==
  \E sid \in SessionIds :
    /\ payment_transactions[sid].booking_id = b
    /\ payment_transactions[sid].payment_status = "paid"

RECURSIVE PaidBookingsPayout(_, _)
PaidBookingsPayout(o, n) ==
  IF n = 0 THEN 0
  ELSE PaidBookingsPayout(o, n - 1)
       + ( IF bookings[n].owner_id = o /\ BookingWasPaid(n)
           THEN bookings[n].total_price - bookings[n].platform_fee ELSE 0 )

EarningsWithinPaidBookings ==
  \A o \in Users :
    users[o].total_earnings <= PaidBookingsPayout(o, Len(bookings))

\* C28: for each booking at most one payment transaction ever has
\* payment_status paid, whether a second checkout session is opened before
\* the first payment is confirmed or after the booking became completed or
\* disputed.
PaidSessionsOf(b) ==
  { sid \in SessionIds :
      /\ payment_transactions[sid].booking_id = b
      /\ payment_transactions[sid].payment_status = "paid" }

OnePaidSessionPerBooking ==
  \A b \in BookingIds : Cardinality(PaidSessionsOf(b)) <= 1

\* C29: released escrow is terminal: once a booking has escrow_status
\* released and status completed, no later operation changes its status or
\* its escrow_status.
ReleasedIsTerminal ==
  [][\A b \in BookingIds :
       ( bookings[b].escrow_status = "released" /\ bookings[b].status = "completed" )
       => /\ b \in 1..Len(bookings')
          /\ bookings'[b].status = bookings[b].status
          /\ bookings'[b].escrow_status = bookings[b].escrow_status]_vars

\* C30: the two payment-confirmation paths are equivalent: from the same
\* state, the first paid signal for a session handled by get_payment_status
\* and handled by stripe_webhook give the same booking status, the same
\* total_earnings and pending_payout of the owner, and the same payout
\* records, for owners with and without a Stripe account.
ConfirmationPathsEquivalent ==
  \A sid \in SessionIds :
    payment_transactions[sid].payment_status # "paid" =>
      LET poll == PollPaid(sid)
          hook == WebhookPaid(sid)
          b == payment_transactions[sid].booking_id
          o == payment_transactions[sid].owner_id
      IN  /\ poll.bookings[b].status = hook.bookings[b].status
          /\ poll.users[o].total_earnings = hook.users[o].total_earnings
          /\ poll.users[o].pending_payout = hook.users[o].pending_payout
          /\ poll.payouts = hook.payouts

====
